---------------------------- MODULE Spec2Model ----------------------------
(***************************************************************************)
(* Model of the HR knowledge assistant: RAGEngine (rag_engine.py), the     *)
(* DocumentProcessor chunker (document_processor.py) and the session       *)
(* handlers of app.py that own the engine.                                 *)
(*                                                                         *)
(* Python strings are TLA+ strings; s[i] is SubSeq(s, i, i).               *)
(***************************************************************************)
EXTENDS Integers, Sequences, FiniteSets, TLC

VARIABLES
    rag_engine,       \* st.session_state.rag_engine: the engine (index, chunks) or none
    first_set,        \* history: chunks passed to the build before the latest one
    second_set,       \* history: chunks passed to the latest build_index call
                      \* (both start empty with a new instance or a cleared session)
    call,             \* the last operation and its arguments
    outcome,          \* "ok", "raised" (exception left the operation) or "error" (handler refused)
    relevant_chunks,  \* result of the last retrieval / context of the last generate_answer
    response,         \* result of the last query
    answer,           \* result of the last generate_answer
    model_calls,      \* chat.completions.create calls made by the last operation
    llm_failed,       \* the last operation's model call raised
    cat_query,        \* categorize_query: input
    category,         \* categorize_query: result
    processor,        \* DocumentProcessor: chunk_size and chunk_overlap
    doc_text,         \* intelligent_chunk: the text argument
    doc_source,       \* intelligent_chunk: the source argument
    doc_chunks,       \* intelligent_chunk: the chunks returned
    emitted,          \* history: for each returned chunk, the statement that appended it
    chunked,          \* intelligent_chunk has returned
    file_paths,       \* process_documents: the file_paths argument
    all_chunks,       \* process_documents: the chunks returned
    warnings,         \* process_documents: the lines printed, in order
    batch             \* process_documents: "idle", "ok" (returned) or "raised"

vars == <<rag_engine, first_set, second_set, call, outcome, relevant_chunks,
          response, answer, model_calls, llm_failed, cat_query, category,
          processor, doc_text, doc_source, doc_chunks, emitted, chunked,
          file_paths, all_chunks, warnings, batch>>

engineVars == <<rag_engine, first_set, second_set, call, outcome,
                relevant_chunks, response, answer, model_calls, llm_failed>>
catVars == <<cat_query, category>>
batchVars == <<file_paths, all_chunks, warnings, batch>>
chunkerVars == <<processor, doc_text, doc_source, doc_chunks, emitted, chunked,
                 file_paths, all_chunks, warnings, batch>>

----------------------------------------------------------------------------
(* Bounds *)

MaxChunks == 2      \* longest chunk sequence handed to build_index
MaxContext == 1     \* the same, where queries are answered
MaxWords == 3       \* categorize_query inputs: at most this many fragments
MaxParts == 4       \* intelligent_chunk inputs: at most this many fragments
MaxFiles == 2       \* process_documents inputs: at most this many file paths

----------------------------------------------------------------------------
(* Generic helpers *)

Min(a, b) == IF a <= b THEN a ELSE b

Range(s) == {s[i] : i \in 1..Len(s)}

SeqsUpTo(S, n) == UNION {[1..m -> S] : m \in 0..n}

\* s[i] of a Python string, 1-based
Ch(s, i) == SubSeq(s, i, i)

\* Python: kw in s
Contains(s, kw) ==
    \E i \in 1..(Len(s) - Len(kw) + 1) : SubSeq(s, i, i + Len(kw) - 1) = kw

UpperAlphabet == "ABCDEFGHIJKLMNOPQRSTUVWXYZ"
LowerAlphabet == "abcdefghijklmnopqrstuvwxyz"

\* str.lower() of one character
LowerCh(c) ==
    IF \E i \in 1..26 : Ch(UpperAlphabet, i) = c
    THEN Ch(LowerAlphabet, CHOOSE i \in 1..26 : Ch(UpperAlphabet, i) = c)
    ELSE c

RECURSIVE Lower(_)
\* str.lower()
Lower(s) == IF s = "" THEN "" ELSE LowerCh(Ch(s, 1)) \o Lower(SubSeq(s, 2, Len(s)))

----------------------------------------------------------------------------
(* RAGEngine.categorize_query *)

\* the dict literal `categories`, in insertion order
categories == <<
    [name |-> "Leave",
     keywords |-> <<"leave", "vacation", "pto", "time off", "holiday", "sick",
                    "parental", "maternity", "paternity">>],
    [name |-> "Benefits",
     keywords |-> <<"benefit", "insurance", "health", "dental", "vision", "401k",
                    "retirement", "pension", "compensation", "salary">>],
    [name |-> "Legal",
     keywords |-> <<"legal", "policy", "compliance", "regulation", "contract",
                    "agreement", "confidentiality", "nda">>],
    [name |-> "Remote Work",
     keywords |-> <<"remote", "work from home", "wfh", "hybrid", "office",
                    "coffee shop", "coworking">>],
    [name |-> "Internal Culture",
     keywords |-> <<"culture", "values", "mission", "team", "events",
                    "diversity", "inclusion">>] >>

\* any(keyword in query_lower for keyword in keywords)
AnyKeyword(query_lower, keywords) ==
    \E j \in 1..Len(keywords) : Contains(query_lower, keywords[j])

RECURSIVE CheckFrom(_, _, _)
\* the loop `for category, keywords in categories.items()` from position i
CheckFrom(table, query_lower, i) ==
    IF i > Len(table) THEN "General"
    ELSE IF AnyKeyword(query_lower, table[i].keywords) THEN table[i].name
    ELSE CheckFrom(table, query_lower, i + 1)

\* a categorize_query that forgets to lower-case the query
categorize_query_nolower(query) == CheckFrom(categories, query, 1)

categorize_query(query) == CheckFrom(categories, Lower(query), 1)

----------------------------------------------------------------------------
(* Embedding model and FAISS index as RAGEngine uses them *)

\* self.embedder.encode: a deterministic map from text to a vector
Embed(text) == <<Len(text), IF Contains(text, "o") THEN 1 ELSE 0>>

\* squared Euclidean distance of IndexFlatL2
L2(u, v) == (u[1] - v[1]) * (u[1] - v[1]) + (u[2] - v[2]) * (u[2] - v[2])

\* distance IndexFlatL2.search reports for a missing neighbour (label -1)
FLT_MAX == 1000000

\* self.index: None, or the vectors added to the IndexFlatL2 in insertion order
NoneIndex == [isNone |-> TRUE, vectors |-> <<>>]
FlatIndex(vectors) == [isNone |-> FALSE, vectors |-> vectors]

\* index.search(q, k): every label sequence FAISS may return. The first
\* min(k, ntotal) hits are distinct labels (0-based) in ascending distance,
\* none farther than an omitted vector (ties in either order); the rest are
\* padded with label -1 at distance FLT_MAX.
Search(vectors, q, k) ==
    LET n == Len(vectors)
        m == Min(k, n)
        d(l) == L2(vectors[l + 1], q)
        good(h) ==
            /\ \A i, j \in 1..m : i # j => h[i] # h[j]
            /\ \A i \in 1..(m - 1) : d(h[i]) <= d(h[i + 1])
            /\ \A l \in 0..(n - 1) :
                  (\A i \in 1..m : h[i] # l) => \A i \in 1..m : d(h[i]) <= d(l)
    IN  { [i \in 1..k |-> IF i <= m THEN [distance |-> d(h[i]), idx |-> h[i]]
                          ELSE [distance |-> FLT_MAX, idx |-> -1]] :
          h \in {g \in [1..m -> 0..(n - 1)] : good(g)} }

\* float(1 / (1 + distance)) kept as an exact fraction
Similarity(distance) == [num |-> 1, den |-> 1 + distance]

\* a >= b on similarity scores
ScoreGeq(a, b) == a.num * b.den >= b.num * a.den

----------------------------------------------------------------------------
(* Inputs *)

\* top_k default of retrieve_relevant_chunks and query, used by the chat handler
DefaultTopK == 3

Chunk(text, source) ==
    [text |-> text, metadata |-> [source |-> source, chunk_type |-> "section"]]

ChunkPool == { Chunk("pto", "a.txt"), Chunk("wfh ok", "b.txt") }

ChunkLists == SeqsUpTo(ChunkPool, MaxChunks)

Queries == { "My PTO", "hi" }

TopKs == 1..DefaultTopK

LlmErrors == { "timeout" }
LlmOutcomes == { "ok" } \cup LlmErrors

ContextLists == SeqsUpTo(ChunkPool, MaxContext)


BuildFailures == { "none", "encode", "add" }

----------------------------------------------------------------------------
(* RAGEngine *)

\* RAGEngine.__init__: index = None, chunks = []
NewEngine == [present |-> TRUE, index |-> NoneIndex, chunks |-> <<>>]

\* st.session_state.rag_engine = None
NoEngine == [present |-> FALSE, index |-> NoneIndex, chunks |-> <<>>]

\* the embeddings build_index adds for a chunk sequence, in order
Embeddings(chunks) == [i \in 1..Len(chunks) |-> Embed(chunks[i].text)]

\* a build_index that adds to what is already indexed
build_index_incremental(engine, chunks, fail) ==
    LET all == engine.chunks \o chunks
    IN  IF fail = "encode"
        THEN [raised |-> TRUE, engine |-> [engine EXCEPT !.chunks = all]]
        ELSE IF fail = "add"
        THEN [raised |-> TRUE,
              engine |-> [engine EXCEPT !.chunks = all, !.index = FlatIndex(<<>>)]]
        ELSE [raised |-> FALSE,
              engine |-> [engine EXCEPT !.chunks = all,
                                        !.index = FlatIndex(Embeddings(all))]]

\* RAGEngine.build_index(chunks); fail says where an exception is raised:
\* "encode" in embedder.encode, "add" in index.add, "none" nowhere
build_index(engine, chunks, fail) ==
    LET e1 == [engine EXCEPT !.chunks = chunks]              \* line 38
        e2 == [e1 EXCEPT !.index = FlatIndex(<<>>)]          \* line 45
        e3 == [e2 EXCEPT !.index = FlatIndex(Embeddings(chunks))]  \* line 49
    IN  IF fail = "encode" THEN [raised |-> TRUE, engine |-> e1]
        ELSE IF fail = "add" THEN [raised |-> TRUE, engine |-> e2]
        ELSE [raised |-> FALSE, engine |-> e3]

\* self.chunks[idx] for a FAISS label idx (0-based; Python wraps a negative idx)
PyIndex(chunks, idx) ==
    IF idx >= 0 THEN chunks[idx + 1] ELSE chunks[Len(chunks) + idx + 1]

\* the loop over zip(distances[0], indices[0]) of retrieve_relevant_chunks
RECURSIVE Results(_, _)
Results(chunks, hits) ==
    IF hits = <<>> THEN <<>>
    ELSE LET h == Head(hits)
             rest == Results(chunks, Tail(hits))
         IN  IF h.idx < Len(chunks)
             THEN <<[text |-> PyIndex(chunks, h.idx).text,
                     metadata |-> PyIndex(chunks, h.idx).metadata,
                     similarity_score |-> Similarity(h.distance)]>> \o rest
             ELSE rest

\* a retrieve_relevant_chunks that asks FAISS for top_k neighbours, not
\* min(top_k, len(chunks))
retrieve_nomin(engine, query, top_k) ==
    IF engine.index.isNone \/ Len(engine.chunks) = 0
    THEN { [raised |-> FALSE, results |-> <<>>] }
    ELSE { [raised |-> TRUE, results |-> <<>>] } \cup
         { [raised |-> FALSE, results |-> Results(engine.chunks, hits)] :
           hits \in Search(engine.index.vectors, Embed(query), top_k) }

\* a retrieve_relevant_chunks without the guard of lines 62-63
retrieve_noguard(engine, query, top_k) ==
    IF engine.index.isNone
    THEN { [raised |-> TRUE, results |-> <<>>] }
    ELSE { [raised |-> TRUE, results |-> <<>>] } \cup
         { [raised |-> FALSE, results |-> Results(engine.chunks, hits)] :
           hits \in Search(engine.index.vectors, Embed(query),
                           Min(top_k, Len(engine.chunks))) }

\* RAGEngine.retrieve_relevant_chunks(query, top_k): every outcome, one per
\* answer FAISS may give, plus the exception of a failing embedder.encode
retrieve_relevant_chunks(engine, query, top_k) ==
    IF engine.index.isNone \/ Len(engine.chunks) = 0
    THEN { [raised |-> FALSE, results |-> <<>>] }
    ELSE { [raised |-> TRUE, results |-> <<>>] } \cup
         { [raised |-> FALSE, results |-> Results(engine.chunks, hits)] :
           hits \in Search(engine.index.vectors, Embed(query),
                           Min(top_k, Len(engine.chunks))) }

\* the fixed string of lines 119-120
Fallback ==
    "I don't have enough information in the knowledge base to answer this question. Please make sure the relevant HR documents have been uploaded, or try rephrasing your question."

\* chat_completion.choices[0].message.content
ModelText == "model answer"

\* a generate_answer without the empty-context guard of line 118
generate_answer_noguard(query, context_chunks, llm) ==
    IF llm = "ok"
    THEN [raised |-> FALSE, answer |-> ModelText, calls |-> 1, failed |-> FALSE]
    ELSE [raised |-> FALSE, answer |-> "Error generating response: " \o llm,
          calls |-> 1, failed |-> TRUE]

\* a generate_answer without the try/except of lines 146-168
generate_answer_propagate(query, context_chunks, llm) ==
    IF context_chunks = <<>>
    THEN [raised |-> FALSE, answer |-> Fallback, calls |-> 0, failed |-> FALSE]
    ELSE IF llm = "ok"
    THEN [raised |-> FALSE, answer |-> ModelText, calls |-> 1, failed |-> FALSE]
    ELSE [raised |-> TRUE, answer |-> "", calls |-> 1, failed |-> TRUE]

\* RAGEngine.generate_answer(query, context_chunks); llm is "ok" or the
\* message of the exception chat.completions.create raises
generate_answer(query, context_chunks, llm) ==
    IF context_chunks = <<>>
    THEN [raised |-> FALSE, answer |-> Fallback, calls |-> 0, failed |-> FALSE]
    ELSE IF llm = "ok"
    THEN [raised |-> FALSE, answer |-> ModelText, calls |-> 1, failed |-> FALSE]
    ELSE [raised |-> FALSE, answer |-> "Error generating response: " \o llm,
          calls |-> 1, failed |-> TRUE]

NoResponse == [answer |-> "", category |-> "", citations |-> <<>>]

\* the list comprehension of lines 191-198
Citations(chunks) ==
    [i \in 1..Len(chunks) |-> [source |-> chunks[i].metadata.source,
                               text |-> chunks[i].text,
                               similarity |-> chunks[i].similarity_score]]

\* RAGEngine.query(query, top_k): every outcome
query(engine, q, top_k, llm) ==
    { IF r.raised
      THEN [raised |-> TRUE, relevant_chunks |-> <<>>, response |-> NoResponse,
            calls |-> 0, failed |-> FALSE]
      ELSE LET g == generate_answer(q, r.results, llm)
           IN  IF g.raised
               THEN [raised |-> TRUE, relevant_chunks |-> r.results,
                     response |-> NoResponse, calls |-> g.calls, failed |-> g.failed]
               ELSE [raised |-> FALSE, relevant_chunks |-> r.results,
                     response |-> [answer |-> g.answer,
                                   category |-> categorize_query(q),
                                   citations |-> Citations(r.results)],
                     calls |-> g.calls, failed |-> g.failed]
      : r \in retrieve_relevant_chunks(engine, q, top_k) }


----------------------------------------------------------------------------
(* Operations on the session's engine *)

Call(op, q, top_k) == [op |-> op, query |-> q, top_k |-> top_k]

\* no retrieval or generation happened in this operation
NoAnswer ==
    /\ relevant_chunks' = <<>>
    /\ response' = NoResponse
    /\ answer' = ""
    /\ model_calls' = 0
    /\ llm_failed' = FALSE

\* engine = RAGEngine(api_key) by a caller of the library
Construct ==
    /\ rag_engine' = NewEngine
    /\ first_set' = {}
    /\ second_set' = {}
    /\ call' = Call("construct", "", 0)
    /\ outcome' = "ok"
    /\ NoAnswer
    /\ UNCHANGED <<catVars, chunkerVars>>

\* engine.build_index(chunks) on the engine that exists
BuildIndex(chunks, fail) ==
    /\ rag_engine.present
    /\ LET b == build_index(rag_engine, chunks, fail)
       IN  /\ rag_engine' = b.engine
           /\ outcome' = IF b.raised THEN "raised" ELSE "ok"
    /\ first_set' = second_set
    /\ second_set' = Range(chunks)
    /\ call' = Call("build_index", "", 0)
    /\ NoAnswer
    /\ UNCHANGED <<catVars, chunkerVars>>

\* the "Process Documents" button: api_key and uploaded say whether the key
\* and the upload list are non-empty, chunks is what process_documents
\* returned, ctor_fails whether RAGEngine(api_key) raises
ProcessDocuments(api_key, uploaded, chunks, ctor_fails, fail) ==
    /\ call' = Call("process_documents", "", 0)
    /\ NoAnswer
    /\ UNCHANGED <<catVars, chunkerVars>>
    /\ IF ~api_key \/ ~uploaded
       THEN /\ outcome' = "error"
            /\ UNCHANGED <<rag_engine, first_set, second_set>>
       ELSE IF ctor_fails
       THEN /\ outcome' = "raised"
            /\ UNCHANGED <<rag_engine, first_set, second_set>>
       ELSE LET b == build_index(NewEngine, chunks, fail)
            IN  /\ rag_engine' = b.engine
                /\ outcome' = IF b.raised THEN "raised" ELSE "ok"
                /\ first_set' = second_set
                /\ second_set' = Range(chunks)

\* the "Clear Knowledge Base" button, shown when the engine holds chunks
ClearKnowledgeBase ==
    /\ rag_engine.present
    /\ rag_engine.chunks # <<>>
    /\ rag_engine' = NoEngine
    /\ first_set' = {}
    /\ second_set' = {}
    /\ call' = Call("clear", "", 0)
    /\ outcome' = "ok"
    /\ NoAnswer
    /\ UNCHANGED <<catVars, chunkerVars>>

\* engine.retrieve_relevant_chunks(q, top_k)
Retrieve(q, top_k) ==
    /\ rag_engine.present
    /\ \E r \in retrieve_relevant_chunks(rag_engine, q, top_k) :
          /\ relevant_chunks' = r.results
          /\ outcome' = IF r.raised THEN "raised" ELSE "ok"
    /\ call' = Call("retrieve", q, top_k)
    /\ response' = NoResponse
    /\ answer' = ""
    /\ model_calls' = 0
    /\ llm_failed' = FALSE
    /\ UNCHANGED <<rag_engine, first_set, second_set, catVars, chunkerVars>>

\* engine.generate_answer(q, context) on a context retrieved earlier or empty
GenerateAnswer(q, context, llm) ==
    /\ rag_engine.present
    /\ LET g == generate_answer(q, context, llm)
       IN  /\ answer' = g.answer
           /\ model_calls' = g.calls
           /\ llm_failed' = g.failed
           /\ outcome' = IF g.raised THEN "raised" ELSE "ok"
    /\ relevant_chunks' = context
    /\ call' = Call("generate_answer", q, 0)
    /\ response' = NoResponse
    /\ UNCHANGED <<rag_engine, first_set, second_set, catVars, chunkerVars>>

\* what a query leaves behind
Answered(r) ==
    /\ relevant_chunks' = r.relevant_chunks
    /\ response' = r.response
    /\ answer' = r.response.answer
    /\ model_calls' = r.calls
    /\ llm_failed' = r.failed
    /\ outcome' = IF r.raised THEN "raised" ELSE "ok"

\* engine.query(q, top_k)
Query(q, top_k, llm) ==
    /\ rag_engine.present
    /\ \E r \in query(rag_engine, q, top_k, llm) : Answered(r)
    /\ call' = Call("query", q, top_k)
    /\ UNCHANGED <<rag_engine, first_set, second_set, catVars, chunkerVars>>

\* the chat input: refuses without an engine, else engine.query(prompt)
Chat(prompt, llm) ==
    /\ call' = Call("chat", prompt, DefaultTopK)
    /\ IF ~rag_engine.present
       THEN /\ outcome' = "error"
            /\ NoAnswer
       ELSE \E r \in query(rag_engine, prompt, DefaultTopK, llm) : Answered(r)
    /\ UNCHANGED <<rag_engine, first_set, second_set, catVars, chunkerVars>>

\* the session before any document is processed (app.py lines 52-57)
EngineIdle ==
    /\ rag_engine = NoEngine
    /\ first_set = {}
    /\ second_set = {}
    /\ call = Call("init", "", 0)
    /\ outcome = "ok"
    /\ relevant_chunks = <<>>
    /\ response = NoResponse
    /\ answer = ""
    /\ model_calls = 0
    /\ llm_failed = FALSE

\* no categorize_query call under way
CatIdle ==
    /\ cat_query = ""
    /\ category = ""

\* the session's DocumentProcessor(), no intelligent_chunk call under way
BatchIdle ==
    /\ file_paths = <<>>
    /\ all_chunks = <<>>
    /\ warnings = <<>>
    /\ batch = "idle"

ChunkerIdle ==
    /\ processor = [chunk_size |-> 1000, chunk_overlap |-> 200]
    /\ doc_text = ""
    /\ doc_source = ""
    /\ doc_chunks = <<>>
    /\ emitted = <<>>
    /\ chunked = FALSE
    /\ BatchIdle

Init == EngineIdle /\ CatIdle /\ ChunkerIdle

\* the "Process Documents" button pressed with any key, upload and failure
Process(lists) ==
    \E api_key, uploaded \in BOOLEAN :
       \E ctor_fails \in (IF api_key /\ uploaded THEN BOOLEAN ELSE {FALSE}) :
          \E chunks \in (IF api_key /\ uploaded /\ ~ctor_fails THEN lists ELSE {<<>>}),
             fail \in (IF api_key /\ uploaded /\ ~ctor_fails
                        THEN BuildFailures ELSE {"none"}) :
             ProcessDocuments(api_key, uploaded, chunks, ctor_fails, fail)

\* building, rebuilding and retrieving
Next ==
    \/ Construct
    \/ \E chunks \in ChunkLists, fail \in BuildFailures : BuildIndex(chunks, fail)
    \/ Process(ChunkLists)
    \/ ClearKnowledgeBase
    \/ \E q \in Queries, top_k \in TopKs : Retrieve(q, top_k)

Spec == Init /\ [][Next]_vars

\* answering: the same engine, built from the shorter ContextLists
NextQuery ==
    \/ Construct
    \/ \E chunks \in ContextLists, fail \in BuildFailures : BuildIndex(chunks, fail)
    \/ Process(ContextLists)
    \/ ClearKnowledgeBase
    \/ \E q \in Queries, top_k \in TopKs : Retrieve(q, top_k)
    \/ \E q \in Queries, llm \in LlmOutcomes : GenerateAnswer(q, relevant_chunks, llm)
    \/ \E q \in Queries, llm \in LlmOutcomes : GenerateAnswer(q, <<>>, llm)
    \/ \E q \in Queries, top_k \in TopKs, llm \in LlmOutcomes : Query(q, top_k, llm)
    \/ \E prompt \in Queries, llm \in LlmOutcomes : Chat(prompt, llm)

SpecQuery == Init /\ [][NextQuery]_vars

----------------------------------------------------------------------------
(* categorize_query applied to drawn inputs *)

Fragments == { "PTO", "nda", "WfH", "Team", "401K", "time", " ", "off", "hello" }

RECURSIVE Concat(_)
\* the fragments of a sequence joined into one string
Concat(ws) == IF ws = <<>> THEN "" ELSE Head(ws) \o Concat(Tail(ws))

CatInputs == { Concat(ws) : ws \in SeqsUpTo(Fragments, MaxWords) }

\* category = engine.categorize_query(cat_query)
Categorize ==
    /\ category = ""
    /\ category' = categorize_query(cat_query)
    /\ UNCHANGED <<cat_query, engineVars, chunkerVars>>

InitCategorize ==
    /\ EngineIdle
    /\ ChunkerIdle
    /\ cat_query \in CatInputs
    /\ category = ""

NextCategorize == Categorize

SpecCategorize == InitCategorize /\ [][NextCategorize]_vars

----------------------------------------------------------------------------
(* DocumentProcessor.intelligent_chunk *)

Chars(s) == { Ch(s, i) : i \in 1..Len(s) }

Digits == Chars("0123456789")                                  \* \d
Uppers == Chars(UpperAlphabet)                                 \* [A-Z]
Spaces == { " ", "\n", "\t" }                                  \* \s, str.strip()
WordChars == Digits \cup Uppers \cup Chars(LowerAlphabet) \cup { "_" }   \* \w

\* length of the longest run of characters of cs in s that starts at p
Run(s, p, cs) ==
    CHOOSE k \in 0..(Len(s) - p + 1) :
        /\ \A i \in 0..(k - 1) : Ch(s, p + i) \in cs
        /\ p + k > Len(s) \/ Ch(s, p + k) \notin cs

\* s has character c at position p
At(s, p, c) == p >= 1 /\ p <= Len(s) /\ Ch(s, p) = c

RECURSIVE Rep(_, _)
\* c repeated n times
Rep(c, n) == IF n <= 0 THEN "" ELSE c \o Rep(c, n - 1)

RECURSIVE Collapse(_, _, _)
\* re.sub of c{keep+1,} by keep copies of c
Collapse(s, c, keep) ==
    IF s = "" THEN ""
    ELSE IF Ch(s, 1) = c
    THEN LET n == Run(s, 1, {c})
         IN  Rep(c, Min(n, keep)) \o Collapse(SubSeq(s, n + 1, Len(s)), c, keep)
    ELSE Ch(s, 1) \o Collapse(SubSeq(s, 2, Len(s)), c, keep)

\* lines 84-85: runs of 3+ newlines become 2, then runs of 2+ spaces become 1
Clean(t) == Collapse(Collapse(t, "\n", 2), " ", 1)

\* the lookahead of section_pattern matches at position p:
\* \d+\. | \d+\) | \w+\s+\d+: | [A-Z][A-Z\s]{5,}:
HeaderAt(s, p) ==
    LET d == Run(s, p, Digits)
        w == Run(s, p, WordChars)
        sp == Run(s, p + w, Spaces)
        n == Run(s, p + w + sp, Digits)
        u == Run(s, p + 1, Uppers \cup Spaces)
    IN  \/ d >= 1 /\ At(s, p + d, ".")
        \/ d >= 1 /\ At(s, p + d, ")")
        \/ w >= 1 /\ sp >= 1 /\ n >= 1 /\ At(s, p + w + sp + n, ":")
        \/ /\ p <= Len(s)
           /\ Ch(s, p) \in Uppers
           /\ \E k \in 5..u : At(s, p + 1 + k, ":")

\* the positions of the newlines section_pattern matches
SectionBreaks(s) == { p \in 1..Len(s) : Ch(s, p) = "\n" /\ HeaderAt(s, p + 1) }

RECURSIVE SplitSections(_)
\* re.split(section_pattern, text)
SplitSections(s) ==
    IF SectionBreaks(s) = {} THEN <<s>>
    ELSE LET p == CHOOSE q \in SectionBreaks(s) : \A r \in SectionBreaks(s) : q <= r
         IN  <<SubSeq(s, 1, p - 1)>> \o SplitSections(SubSeq(s, p + 1, Len(s)))

\* the positions where "\n\n" occurs
ParagraphBreaks(s) == { p \in 1..(Len(s) - 1) : SubSeq(s, p, p + 1) = "\n\n" }

RECURSIVE SplitParagraphs(_)
\* section.split('\n\n')
SplitParagraphs(s) ==
    IF ParagraphBreaks(s) = {} THEN <<s>>
    ELSE LET p == CHOOSE q \in ParagraphBreaks(s) : \A r \in ParagraphBreaks(s) : q <= r
         IN  <<SubSeq(s, 1, p - 1)>> \o SplitParagraphs(SubSeq(s, p + 2, Len(s)))

\* str.strip()
Strip(s) ==
    LET lead == Run(s, 1, Spaces)
        keep == { i \in 1..Len(s) : Ch(s, i) \notin Spaces }
        last == CHOOSE i \in keep : \A j \in keep : j <= i
    IN  IF lead = Len(s) THEN "" ELSE SubSeq(s, lead + 1, last)

\* the overlap taken as the whole buffer
LastChars_whole(s, n) == s

\* s[-n:] for n > 0
LastChars(s, n) == IF n >= Len(s) THEN s ELSE SubSeq(s, Len(s) - n + 1, Len(s))

\* one appended chunk: its text and chunk_type, and for the properties the
\* statement that appended it ("section" line 99, "flush" line 119, "rest"
\* line 142), the number of its section, the buffer it was taken from and,
\* for a flush, the paragraph that did not fit
Emit(txt, chunk_type, how, sec, buffer, paragraph) ==
    [text |-> txt, chunk_type |-> chunk_type, how |-> how, sec |-> sec,
     buffer |-> buffer, paragraph |-> paragraph]

RECURSIVE Pack(_, _, _, _, _)
\* the loop of lines 111-148 from paragraph i on, current_chunk being cur
Pack(paragraphs, i, cur, cfg, sec) ==
    IF i > Len(paragraphs)
    THEN IF cur # ""
         THEN <<Emit(Strip(cur), "paragraph_group", "rest", sec, cur, "")>>
         ELSE <<>>
    ELSE LET paragraph == Strip(paragraphs[i])
         IN  IF paragraph = "" THEN Pack(paragraphs, i + 1, cur, cfg, sec)
             ELSE IF Len(cur) + Len(paragraph) + 2 > cfg.chunk_size
             THEN (IF cur # ""
                   THEN <<Emit(Strip(cur), "paragraph_group", "flush", sec, cur, paragraph)>>
                   ELSE <<>>)
                  \o Pack(paragraphs, i + 1,
                          IF cfg.chunk_overlap > 0 /\ cur # ""
                          THEN LastChars(cur, cfg.chunk_overlap) \o "\n\n" \o paragraph
                          ELSE paragraph,
                          cfg, sec)
             ELSE Pack(paragraphs, i + 1,
                       IF cur # "" THEN cur \o "\n\n" \o paragraph ELSE paragraph,
                       cfg, sec)

\* lines 106-148: a section longer than chunk_size
PackSection(section, cfg, sec) == Pack(SplitParagraphs(section), 1, "", cfg, sec)

\* an intelligent_chunk that sends every section through the paragraph loop
SectionChunks_always_pack(section, cfg, sec) ==
    IF section = "" THEN <<>> ELSE PackSection(section, cfg, sec)

\* the body of `for section in sections`, section already stripped
SectionChunks(section, cfg, sec) ==
    IF section = "" THEN <<>>
    ELSE IF Len(section) <= cfg.chunk_size
    THEN <<Emit(section, "section", "section", sec, section, "")>>
    ELSE PackSection(section, cfg, sec)

RECURSIVE ChunkSections(_, _, _)
\* the loop `for section in sections` from section sec on
ChunkSections(sections, cfg, sec) ==
    IF sec > Len(sections) THEN <<>>
    ELSE SectionChunks(Strip(sections[sec]), cfg, sec)
         \o ChunkSections(sections, cfg, sec + 1)

\* everything intelligent_chunk appends, in order
Emitted(t, cfg) == ChunkSections(SplitSections(Clean(t)), cfg, 1)

\* DocumentProcessor.intelligent_chunk(text, source)
intelligent_chunk(t, src, cfg) ==
    LET es == Emitted(t, cfg)
    IN  [i \in 1..Len(es) |->
            [text |-> es[i].text,
             metadata |-> [source |-> src, chunk_type |-> es[i].chunk_type]]]

\* DocumentProcessor(chunk_size, chunk_overlap), scaled down
Processors ==
    { [chunk_size |-> 12, chunk_overlap |-> 2],
      [chunk_size |-> 12, chunk_overlap |-> 4] }

TextFragments == { "c d", "abcdef", " ", "\n", "\n\n", "1.", "2)", "S 1:", "AB CDE:" }

Texts == { Concat(ws) : ws \in SeqsUpTo(TextFragments, MaxParts) }

Sources == { "policy.txt" }

\* doc_chunks = processor.intelligent_chunk(doc_text, doc_source)
IntelligentChunk ==
    /\ ~chunked
    /\ doc_chunks' = intelligent_chunk(doc_text, doc_source, processor)
    /\ emitted' = Emitted(doc_text, processor)
    /\ chunked' = TRUE
    /\ UNCHANGED <<processor, doc_text, doc_source, engineVars, catVars, batchVars>>

InitChunker ==
    /\ EngineIdle
    /\ CatIdle
    /\ BatchIdle
    /\ processor \in Processors
    /\ doc_text \in Texts
    /\ doc_source \in Sources
    /\ doc_chunks = <<>>
    /\ emitted = <<>>
    /\ chunked = FALSE

NextChunker == IntelligentChunk

SpecChunker == InitChunker /\ [][NextChunker]_vars

----------------------------------------------------------------------------
(* DocumentProcessor.process_documents and extract_text                    *)

\* the position of the last c in s, 0 when there is none (str.rfind + 1)
LastIndexOf(s, c) ==
    IF \E i \in 1..Len(s) : Ch(s, i) = c
    THEN CHOOSE i \in 1..Len(s) :
            /\ Ch(s, i) = c
            /\ \A j \in (i + 1)..Len(s) : Ch(s, j) # c
    ELSE 0

\* Path(file_path).name: the last component of the path
Name(file_path) ==
    SubSeq(file_path, LastIndexOf(file_path, "/") + 1, Len(file_path))

\* Path(file_path).suffix: from the last dot of the name, when that dot is
\* neither its first nor its last character
Suffix(file_path) ==
    LET name == Name(file_path)
        dot == LastIndexOf(name, ".")
    IN  IF dot > 1 /\ dot < Len(name) THEN SubSeq(name, dot, Len(name)) ELSE ""

\* str(n) of a page number
Str(n) == Ch("123456789", n)

\* what the files hold: readable is FALSE when opening or parsing the file
\* raises; parts are the page texts of a PDF, the paragraph texts of a DOCX
\* document, and the one string read() returns otherwise
Readable(parts) == [readable |-> TRUE, parts |-> parts]
Unreadable == [readable |-> FALSE, parts |-> <<>>]

Disk(file_path) ==
    CASE file_path = "temp_uploads/a.txt"  -> Readable(<<"c d\n1. abcdef">>)
      [] file_path = "temp_uploads/b.PDF"  -> Readable(<<"AB", "", "c d">>)
      [] file_path = "temp_uploads/c.md"   -> Readable(<<"abcdef">>)
      [] file_path = "temp_uploads/d.docx" -> Unreadable
      [] file_path = "e.v2.docx"           -> Readable(<<"abcdef", "", "2) c d">>)
      [] file_path = "temp_uploads/f.txt"  -> Unreadable
      [] file_path = "temp_uploads/g.pdf"  -> Unreadable
      [] OTHER                             -> Unreadable

FilePaths ==
    { "temp_uploads/a.txt", "temp_uploads/b.PDF", "temp_uploads/c.md",
      "temp_uploads/d.docx", "e.v2.docx", "temp_uploads/f.txt",
      "temp_uploads/g.pdf" }

FileLists == SeqsUpTo(FilePaths, MaxFiles)

\* the result of a call that may raise
Returned(value) == [raised |-> FALSE, value |-> value, error |-> ""]
Raised(error) == [raised |-> TRUE, value |-> "", error |-> error]

\* str(e) of the exception that opening or parsing the file raised
Cause == "cannot read"

RECURSIVE Pages(_, _)
\* the page loop: text += f"\n--- Page {page_num + 1} ---\n{page_text}"
Pages(parts, page_num) ==
    IF page_num > Len(parts) THEN ""
    ELSE (IF parts[page_num] # ""
          THEN "\n--- Page " \o Str(page_num) \o " ---\n" \o parts[page_num]
          ELSE "")
         \o Pages(parts, page_num + 1)

extract_text_from_pdf(file_path) ==
    IF Disk(file_path).readable
    THEN Returned(Pages(Disk(file_path).parts, 1))
    ELSE Raised("Error reading PDF " \o file_path \o ": " \o Cause)

RECURSIVE JoinLines(_)
\* "\n".join(...)
JoinLines(parts) ==
    IF parts = <<>> THEN ""
    ELSE IF Len(parts) = 1 THEN parts[1]
    ELSE parts[1] \o "\n" \o JoinLines(Tail(parts))

extract_text_from_docx(file_path) ==
    IF Disk(file_path).readable
    THEN Returned(JoinLines(Disk(file_path).parts))
    ELSE Raised("Error reading DOCX " \o file_path \o ": " \o Cause)

extract_text_from_txt(file_path) ==
    IF Disk(file_path).readable
    THEN Returned(Disk(file_path).parts[1])
    ELSE Raised("Error reading TXT " \o file_path \o ": " \o Cause)

extract_text(file_path) ==
    LET extension == Lower(Suffix(file_path))
    IN  IF extension = ".pdf" THEN extract_text_from_pdf(file_path)
        ELSE IF extension = ".docx" THEN extract_text_from_docx(file_path)
        ELSE IF extension = ".txt" THEN extract_text_from_txt(file_path)
        ELSE Raised("Unsupported file type: " \o extension)

\* the body of the try block for one file: the chunks to extend all_chunks
\* with, or the exception
TryFile(file_path, cfg) ==
    LET text == extract_text(file_path)
    IN  IF text.raised THEN Raised(text.error)
        ELSE [raised |-> FALSE,
              value |-> intelligent_chunk(text.value, Name(file_path), cfg),
              error |-> ""]

Warning(file_path, error) ==
    "Warning: Could not process " \o file_path \o ": " \o error

Batch(chunks, printed, raised) ==
    [all_chunks |-> chunks, printed |-> printed, raised |-> raised]

RECURSIVE process_documents_no_except_from(_, _, _, _)
process_documents_no_except_from(paths, i, acc, cfg) ==
    IF i > Len(paths) THEN Batch(acc, <<>>, FALSE)
    ELSE LET r == TryFile(paths[i], cfg)
         IN  IF r.raised THEN Batch(<<>>, <<>>, TRUE)
             ELSE process_documents_no_except_from(paths, i + 1, acc \o r.value, cfg)

\* process_documents without the try/except around the loop body
process_documents_no_except(paths, cfg) ==
    process_documents_no_except_from(paths, 1, <<>>, cfg)

RECURSIVE ProcessFrom(_, _, _, _, _)
\* the for loop from the i-th file path on
ProcessFrom(paths, i, acc, printed, cfg) ==
    IF i > Len(paths) THEN Batch(acc, printed, FALSE)
    ELSE LET r == TryFile(paths[i], cfg)
         IN  IF r.raised
             THEN ProcessFrom(paths, i + 1, acc,
                              Append(printed, Warning(paths[i], r.error)), cfg)
             ELSE ProcessFrom(paths, i + 1, acc \o r.value, printed, cfg)

process_documents(paths, cfg) == ProcessFrom(paths, 1, <<>>, <<>>, cfg)

ProcessBatch ==
    /\ batch = "idle"
    /\ LET r == process_documents(file_paths, processor)
       IN  /\ all_chunks' = r.all_chunks
           /\ warnings' = r.printed
           /\ batch' = IF r.raised THEN "raised" ELSE "ok"
    /\ UNCHANGED <<processor, file_paths, doc_text, doc_source, doc_chunks,
                   emitted, chunked, engineVars, catVars>>

InitBatch ==
    /\ EngineIdle
    /\ CatIdle
    /\ processor \in Processors
    /\ doc_text = ""
    /\ doc_source = ""
    /\ doc_chunks = <<>>
    /\ emitted = <<>>
    /\ chunked = FALSE
    /\ file_paths \in FileLists
    /\ all_chunks = <<>>
    /\ warnings = <<>>
    /\ batch = "idle"

NextBatch == ProcessBatch

SpecBatch == InitBatch /\ [][NextBatch]_vars

----------------------------------------------------------------------------
(* Properties *)

\* index and chunk sequence agree: nothing built and no chunks, or one
\* vector per chunk, vector i the embedding of chunk i
Lockstep(e) ==
    \/ e.index.isNone /\ e.chunks = <<>>
    \/ ~e.index.isNone /\ e.index.vectors = Embeddings(e.chunks)

\* a retrieval result without its similarity_score
Unscored(r) == [text |-> r.text, metadata |-> r.metadata]

BuildOps == { "build_index", "process_documents" }
QueryOps == { "query", "chat" }

\* C1: a build_index that raises (in embedding or in vector insertion),
\* called on an engine with a built index, or run by "Process Documents" on
\* a session whose engine has one, leaves the index and the chunk sequence
\* of the engine as they were.
C1_BuildAllOrNothing ==
    [][ ( /\ rag_engine.present
          /\ ~rag_engine.index.isNone
          /\ Lockstep(rag_engine)
          /\ rag_engine.chunks # <<>>
          /\ call'.op \in BuildOps
          /\ outcome' = "raised" )
        => ( /\ rag_engine'.index = rag_engine.index
             /\ rag_engine'.chunks = rag_engine.chunks ) ]_vars

\* C2: in every reachable state the engine's index and chunk sequence are
\* in lockstep.
C2_Lockstep == rag_engine.present => Lockstep(rag_engine)

\* C3: a retrieval after two builds returns no chunk that was in the first
\* build's chunk set and not in the second's.
C3_RebuildReplaces ==
    (call.op = "retrieve" /\ outcome = "ok")
    => \A i \in 1..Len(relevant_chunks) :
          Unscored(relevant_chunks[i]) \notin (first_set \ second_set)

C3_Witness ==
    /\ call.op = "retrieve"
    /\ outcome = "ok"
    /\ Lockstep(rag_engine)
    /\ relevant_chunks # <<>>
    /\ first_set \ second_set # {}

\* C4: on an index built from N chunks, retrieval with top_k returns exactly
\* min(top_k, N) results, each a chunk of the indexed sequence, in
\* non-increasing order of similarity score.
C4_TopK ==
    (rag_engine.present /\ Lockstep(rag_engine) /\ call.op = "retrieve" /\ outcome = "ok")
    => /\ Len(relevant_chunks) = Min(call.top_k, Len(rag_engine.chunks))
       /\ \A i \in 1..Len(relevant_chunks) :
             Unscored(relevant_chunks[i]) \in Range(rag_engine.chunks)
       /\ \A i \in 1..(Len(relevant_chunks) - 1) :
             ScoreGeq(relevant_chunks[i].similarity_score,
                      relevant_chunks[i + 1].similarity_score)

C4_Witness ==
    /\ call.op = "retrieve"
    /\ outcome = "ok"
    /\ Lockstep(rag_engine)
    /\ call.top_k = 2
    /\ Len(rag_engine.chunks) = 2
    /\ Len(relevant_chunks) = 2
    /\ ~ScoreGeq(relevant_chunks[2].similarity_score,
                 relevant_chunks[1].similarity_score)
    /\ relevant_chunks[1].text = rag_engine.chunks[2].text

\* index is None or there are no chunks
Empty(e) == e.index.isNone \/ Len(e.chunks) = 0

Categories == { categories[i].name : i \in 1..Len(categories) } \cup { "General" }

\* C5: on an engine whose index is unbuilt or that holds no chunks,
\* retrieval returns the empty sequence without raising, and a query
\* returns, without raising, no citations, the fallback answer and the
\* category of its text.
C5_EmptyIndex ==
    (rag_engine.present /\ Empty(rag_engine))
    => /\ call.op = "retrieve" => (outcome = "ok" /\ relevant_chunks = <<>>)
       /\ call.op \in QueryOps =>
             /\ outcome = "ok"
             /\ response.citations = <<>>
             /\ response.answer = Fallback
             /\ response.category \in Categories
             /\ response.category = categorize_query(call.query)

C5_Witness ==
    /\ rag_engine.present
    /\ rag_engine.index.isNone
    /\ call.op = "query"
    /\ response.answer = Fallback
    /\ response.category = "Leave"

\* C6: a generate_answer on an empty context, called directly or by a
\* query, makes no call to the text-generation model and returns the
\* fallback string.
C6_NoModelCallOnEmptyContext ==
    (call.op \in QueryOps \cup {"generate_answer"} /\ relevant_chunks = <<>>)
    => /\ model_calls = 0
       /\ outcome = "ok" => answer = Fallback

C6_Witness ==
    /\ call.op = "generate_answer"
    /\ relevant_chunks = <<>>
    /\ ~Empty(rag_engine)
    /\ answer = Fallback

\* the answer generate_answer returns when the model call raised
IsErrorAnswer(a) == \E e \in LlmErrors : a = "Error generating response: " \o e

\* C7: when the model call raises, generate_answer returns the error string
\* and raises nothing; a query then returns that string as its answer, with
\* the category of its text and the citations of the retrieved chunks; the
\* engine is unchanged.
C7_GenerationFailureIsAnAnswer ==
    [][ (call'.op \in QueryOps \cup {"generate_answer"} /\ llm_failed')
        => /\ outcome' = "ok"
           /\ IsErrorAnswer(answer')
           /\ rag_engine' = rag_engine
           /\ call'.op \in QueryOps =>
                 /\ response'.answer = answer'
                 /\ response'.category = categorize_query(call'.query)
                 /\ relevant_chunks' # <<>>
                 /\ response'.citations = Citations(relevant_chunks') ]_vars

C7_Witness ==
    /\ call.op = "query"
    /\ llm_failed
    /\ outcome = "ok"
    /\ IsErrorAnswer(response.answer)
    /\ Len(response.citations) >= 1
    /\ response.citations[1].text = rag_engine.chunks[1].text

\* the order in which categorize_query checks the categories
CheckOrder == <<"Leave", "Benefits", "Legal", "Remote Work", "Internal Culture">>

\* the keyword list of a category
KeywordsOf(name) ==
    LET i == CHOOSE k \in 1..Len(categories) : categories[k].name = name
    IN  Range(categories[i].keywords)

\* some keyword of the category occurs in the lower-cased query
Matches(name, q) == \E kw \in KeywordsOf(name) : Contains(Lower(q), kw)

\* C8: categorize_query returns one of the six categories: the first of
\* Leave, Benefits, Legal, Remote Work, Internal Culture with a keyword
\* occurring in the lower-cased query, and General exactly when none has.
C8_CategorizeFirstMatch ==
    category # ""
    => /\ category \in Range(CheckOrder) \cup { "General" }
       /\ \A i \in 1..Len(CheckOrder) :
             category = CheckOrder[i]
             <=> ( /\ Matches(CheckOrder[i], cat_query)
                   /\ \A j \in 1..(i - 1) : ~Matches(CheckOrder[j], cat_query) )
       /\ category = "General"
          <=> \A i \in 1..Len(CheckOrder) : ~Matches(CheckOrder[i], cat_query)

C8_Witness ==
    /\ category = "Leave"
    /\ cat_query # Lower(cat_query)
    /\ Matches("Legal", cat_query)
    /\ Matches("Internal Culture", cat_query)

\* s begins with prefix
StartsWith(s, prefix) == Len(prefix) <= Len(s) /\ SubSeq(s, 1, Len(prefix)) = prefix

\* exactly one chunk, tagged 'section', of the given source and text
OneSectionChunk(t) ==
    /\ Len(doc_chunks) = 1
    /\ doc_chunks[1].metadata.chunk_type = "section"
    /\ doc_chunks[1].metadata.source = doc_source
    /\ doc_chunks[1].text = t

\* C9 as stated: every text shorter than chunk_size yields exactly one
\* chunk, tagged 'section', whose text is the trimmed input and whose source
\* is the given source.
C9_ShortTextOneSection ==
    (chunked /\ Len(doc_text) < processor.chunk_size)
    => OneSectionChunk(Strip(doc_text))

\* C9 as amended: every text shorter than chunk_size that is not blank and
\* whose whitespace-normalised form has no section boundary yields exactly
\* one chunk, tagged 'section', whose text is the trimmed whitespace-
\* normalised input and whose source is the given source.
C9_ShortPlainTextOneSection ==
    ( /\ chunked
      /\ Len(doc_text) < processor.chunk_size
      /\ Strip(doc_text) # ""
      /\ SectionBreaks(Clean(doc_text)) = {} )
    => OneSectionChunk(Strip(Clean(doc_text)))

C9_Witness ==
    /\ chunked
    /\ Len(doc_text) < processor.chunk_size
    /\ Strip(doc_text) # ""
    /\ SectionBreaks(Clean(doc_text)) = {}
    /\ Strip(doc_text) # doc_text
    /\ Len(Strip(doc_text)) > 1
    /\ OneSectionChunk(Strip(doc_text))

\* C10: after every chunk appended by a flush (the next paragraph did not
\* fit the non-empty buffer), the next chunk comes from the same section
\* and begins with the last chunk_overlap characters of the flushed chunk,
\* a blank line and the paragraph that did not fit.
C10_OverlapInvariant ==
    chunked
    => \A i \in 1..Len(emitted) :
          emitted[i].how = "flush"
          => /\ i < Len(emitted)
             /\ emitted[i + 1].sec = emitted[i].sec
             /\ StartsWith(doc_chunks[i + 1].text,
                           LastChars(doc_chunks[i].text, processor.chunk_overlap)
                           \o "\n\n" \o emitted[i].paragraph)

\* the extensions extract_text dispatches on
Supported == { ".pdf", ".docx", ".txt" }

\* the document cannot be extracted: unsupported extension or unreadable file
FailsExtraction(file_path) ==
    \/ Lower(Suffix(file_path)) \notin Supported
    \/ ~Disk(file_path).readable

Remaining(paths) == SelectSeq(paths, LAMBDA f : ~FailsExtraction(f))
Skipped(paths) == SelectSeq(paths, FailsExtraction)

\* the chunk sequence of one document, tagged with its filename
ChunksOf(file_path, cfg) ==
    intelligent_chunk(extract_text(file_path).value, Name(file_path), cfg)

RECURSIVE ConcatChunks(_, _)
ConcatChunks(paths, cfg) ==
    IF paths = <<>> THEN <<>>
    ELSE ChunksOf(Head(paths), cfg) \o ConcatChunks(Tail(paths), cfg)

\* C11: process_documents returns for every list of file paths, whatever
\* documents fail extraction (unreadable file or unsupported extension): one
\* warning naming the file is printed for each failing document, in input
\* order, and the result is the concatenation, in input order, of the chunk
\* sequences of the remaining documents, each chunk carrying the filename
\* (without directory) of its own document as source.
C11_BatchIsolatesFailures ==
    batch # "idle" =>
        /\ batch = "ok"
        /\ all_chunks = ConcatChunks(Remaining(file_paths), processor)
        /\ Len(warnings) = Len(Skipped(file_paths))
        /\ \A i \in 1..Len(warnings) :
              StartsWith(warnings[i],
                         "Warning: Could not process " \o Skipped(file_paths)[i] \o ": ")
        /\ \A i \in 1..Len(all_chunks) :
              /\ ~Contains(all_chunks[i].metadata.source, "/")
              /\ \E j \in 1..Len(file_paths) :
                    /\ ~FailsExtraction(file_paths[j])
                    /\ Contains(file_paths[j], all_chunks[i].metadata.source)

\* a batch whose first document fails and whose second document is chunked
C11_Witness ==
    /\ batch = "ok"
    /\ Len(file_paths) = 2
    /\ FailsExtraction(file_paths[1])
    /\ ~FailsExtraction(file_paths[2])
    /\ all_chunks # <<>>
    /\ Len(warnings) = 1

\* the paragraphs of the sec-th section of the cleaned text: the stripped,
\* non-empty pieces between blank lines
SectionParagraphs(t, sec) ==
    LET pieces == SplitParagraphs(Strip(SplitSections(Clean(t))[sec]))
    IN  { Strip(pieces[k]) : k \in 1..Len(pieces) } \ { "" }

AllParagraphs(t) ==
    UNION { SectionParagraphs(t, sec) : sec \in 1..Len(SplitSections(Clean(t))) }

NoLongParagraph(t, cfg) == \A q \in AllParagraphs(t) : Len(q) <= cfg.chunk_size

EndsWith(s, suffix) == Len(suffix) <= Len(s) /\ LastChars(s, Len(suffix)) = suffix

\* the buffer of the i-th chunk is as it was first set, with no paragraph
\* joined to it since: the paragraph that opened the section's buffer, or,
\* after a flush, the overlap, a blank line and the paragraph that did not fit
FreshBuffer(i) ==
    IF i > 1 /\ emitted[i - 1].how = "flush" /\ emitted[i - 1].sec = emitted[i].sec
    THEN emitted[i].buffer =
            IF processor.chunk_overlap > 0
            THEN LastChars(emitted[i - 1].buffer, processor.chunk_overlap)
                 \o "\n\n" \o emitted[i - 1].paragraph
            ELSE emitted[i - 1].paragraph
    ELSE emitted[i].buffer \in SectionParagraphs(doc_text, emitted[i].sec)

=============================================================================
